---------------------------- MODULE Spec2Model ----------------------------
(***************************************************************************)
(* Model of the read-only catalogue query layer: the movie service         *)
(* (FindAll, FindAllByGenre, FindAllByActorId, FindAllByDirectorId,        *)
(* FindOneById, FindAllBySimilarity, getUserFavorites) and the people      *)
(* service (FindAll, FindOneById, FindAllBySimilarity).                    *)
(*                                                                         *)
(* The graph store is modelled by the meaning of the Cypher text each      *)
(* operation sends: pattern matching over directed typed relationships     *)
(* (a relationship is never used twice in one pattern), WHERE filters,     *)
(* aggregation, ORDER BY (rows with equal keys come in any order the       *)
(* store picks), SKIP and LIMIT.  Every store interaction may fail.        *)
(*                                                                         *)
(* Optional values are sequences of length at most one: <<>> is nil/null.  *)
(* An error value is the set of error kinds it carries: {} is nil.         *)
(***************************************************************************)
EXTENDS Integers, Sequences, FiniteSets

\* ------------------------------------------------------------- bounds
MaxSkip == 2
MaxLimit == 2
MaxRating == 2

\* ------------------------------------------------------------ universe
Movies == {"m1", "m2", "m3"}
People == {"p1", "p2", "p3"}
Genres == {"g1", "g2"}
Users == {"u1", "u2", "u3"}
\* a favourited node that carries no tmdbId property
NoIdNode == "x1"
\* identifiers a caller may pass that match no node
UnknownId == "zz"

Min(a, b) == IF a <= b THEN a ELSE b

\* relationships are <<type, from, to>>
BaseEdges ==
    { <<"IN_GENRE", "m1", "g1">>, <<"IN_GENRE", "m1", "g2">>,
      <<"IN_GENRE", "m3", "g1">>, <<"IN_GENRE", "m3", "g2">>,
      <<"ACTED_IN", "p1", "m1">>, <<"ACTED_IN", "p2", "m1">>,
      <<"ACTED_IN", "p1", "m2">>,
      <<"DIRECTED", "p3", "m3">>, <<"DIRECTED", "p2", "m3">>,
      <<"HAS_FAVORITE", "u1", "m1">>, <<"HAS_FAVORITE", "u1", "m3">>,
      <<"HAS_FAVORITE", "u3", NoIdNode>>,
      <<"RATED", "u1", "m1">>, <<"RATED", "u2", "m1">> }

OptionalEdges ==
    { <<"ACTED_IN", "p3", "m1">>, <<"DIRECTED", "p1", "m1">> }

Ratings == {<<>>} \cup { <<r>> : r \in 1..MaxRating }

\* the graphs the store may hold: data is never written by these services
Graphs ==
    { [edges |-> BaseEdges \cup extra,
       rating |-> [m \in Movies |->
                     IF m = "m1" THEN <<1>>
                     ELSE IF m = "m3" THEN <<MaxRating>> ELSE r2]]
      : extra \in SUBSET OptionalEdges, r2 \in Ratings }

\* ------------------------------------------------------ node properties
HasLabel(n, label) ==
    CASE label = "Movie" -> n \in Movies
      [] label = "Person" -> n \in People
      [] label = "Genre" -> n \in Genres
      [] label = "User" -> n \in Users
      [] OTHER -> FALSE

\* titles sort in an order different from the identifiers
TitleOf(m) == CASE m = "m1" -> <<3>> [] m = "m2" -> <<1>> [] OTHER -> <<2>>

NameOf(p) ==
    CASE p = "p1" -> <<"A", "l">>
      [] p = "p2" -> <<"a", "b">>
      [] OTHER -> <<"B">>

BornOf(p) == CASE p = "p1" -> <<1>> [] p = "p2" -> <<1>> [] OTHER -> <<>>

ToLowerChar(c) == CASE c = "A" -> "a" [] c = "B" -> "b" [] OTHER -> c
ToLower(s) == [i \in 1..Len(s) |-> ToLowerChar(s[i])]
CharCode(c) ==
    CASE c = "A" -> 65 [] c = "B" -> 66 [] c = "a" -> 97 [] c = "b" -> 98
      [] OTHER -> 108
Contains(s, t) ==
    \E i \in 0..(Len(s) - Len(t)) : SubSeq(s, i + 1, i + Len(t)) = t

RECURSIVE StrLess(_, _)
StrLess(s, t) ==
    IF t = <<>> THEN FALSE
    ELSE IF s = <<>> THEN TRUE
    ELSE IF CharCode(Head(s)) # CharCode(Head(t))
         THEN CharCode(Head(s)) < CharCode(Head(t))
         ELSE StrLess(Tail(s), Tail(t))

\* a name's sort key: its rank among the names of the store
NameRank(p) == << Cardinality({ q \in People : StrLess(NameOf(q), NameOf(p)) }) >>

\* the value of property `key` on node n: <<>> when the node lacks it
Prop(g, n, key) ==
    CASE key = "tmdbId" -> IF n \in Movies \cup People THEN <<n>> ELSE <<>>
      [] key = "title" -> IF n \in Movies THEN TitleOf(n) ELSE <<>>
      [] key = "imdbRating" -> IF n \in Movies THEN g.rating[n] ELSE <<>>
      [] key = "name" -> IF n \in People THEN NameRank(n) ELSE <<>>
      [] key = "born" -> IF n \in People THEN BornOf(n) ELSE <<>>
      [] OTHER -> <<>>

Nodes == Movies \cup People \cup Genres \cup Users \cup {NoIdNode}

\* nodes with the given label whose tmdbId equals id
Lookup(g, label, id) ==
    { n \in Nodes : HasLabel(n, label) /\ Prop(g, n, "tmdbId") = <<id>> }

\* ------------------------------------------------------------- ordering
RECURSIVE Perms(_)
Perms(S) ==
    IF S = {} THEN { <<>> }
    ELSE UNION { { <<x>> \o p : p \in Perms(S \ {x}) } : x \in S }

\* ORDER BY: null keys come last ascending, first descending
KeyLeq(a, b) ==
    IF b = <<>> THEN TRUE ELSE IF a = <<>> THEN FALSE ELSE a[1] <= b[1]

InOrder(a, b, order) == IF order = "DESC" THEN KeyLeq(b, a) ELSE KeyLeq(a, b)

\* every sequence the store may deliver for rows S ordered by Key
Orderings(S, key, order) ==
    { p \in Perms(S) :
        \A i \in 1..(Len(p) - 1) : InOrder(key[p[i]], key[p[i + 1]], order) }

\* SKIP skip LIMIT limit
Window(rows, skip, limit) == SubSeq(rows, skip + 1, Min(skip + limit, Len(rows)))


\* ------------------------------------------------------ paging (PagingSpec)
MovieSorts == {"title", "imdbRating"}
PeopleSorts == {"name", "born"}
AllowList(entity) == IF entity = "movie" THEN MovieSorts ELSE PeopleSorts
\* a sort string that would change the query's structure if interpolated
BadSort == "title IS NULL RETURN m"
Orders == {"ASC", "DESC"}
Queries == { <<>>, <<<<"B">>>> }

RawPagings(entity) ==
    [entity : {entity},
     sort : AllowList(entity) \cup {BadSort},
     order : Orders \cup {"SIDEWAYS"},
     skip : (-1)..MaxSkip,
     limit : 0..(MaxLimit + 1),
     query : IF entity = "movie" THEN { <<>> } ELSE Queries]

ValidPaging(raw) ==
    /\ raw.sort \in AllowList(raw.entity)
    /\ raw.order \in Orders
    /\ raw.skip >= 0
    /\ raw.limit >= 1
    /\ raw.limit <= MaxLimit

\* variant of ParsePaging that checks everything but the sort field
ParsePagingUnchecked(raw) ==
    IF raw.order \in Orders /\ raw.skip >= 0 /\ raw.limit >= 1 /\ raw.limit <= MaxLimit
    THEN <<raw>> ELSE <<>>

\* the validated paging of a raw request: <<>> when it is rejected
ParsePaging(raw) == IF ValidPaging(raw) THEN <<raw>> ELSE <<>>

\* --------------------------------------------------------------- helpers
\* fixtures.Slice: the client-side skip/limit slice of a collected list
Slice(list, skip, limit) ==
    IF skip >= Len(list) THEN <<>>
    ELSE SubSeq(list, skip + 1, Min(skip + limit, Len(list)))

\* ioutils.DeferredClose: the close error joined to the earlier one
DeferredClose(closeErr, prevErr) == prevErr \cup closeErr

\* ------------------------------------------------------ getUserFavorites
\* (u:User {userId: $userId})-[:HAS_FAVORITE]->(m): the favourited nodes
FavoriteNodes(g, userId) ==
    { e[3] : e \in { e \in g.edges : e[1] = "HAS_FAVORITE" /\ e[2] = userId } }

\* RETURN m.tmdbId AS id, for the rows that carry one
FavoriteIds(g, nodes) ==
    { Prop(g, n, "tmdbId")[1] : n \in { n \in nodes : Prop(g, n, "tmdbId") # <<>> } }

\* --------------------------------------------------------- movie queries
\* variant of IsFavorite that flags every movie once the user has a favourite
IsFavoriteAny(g, m, favs) == favs # {}

\* favorite: m.tmdbId IN $favorites
IsFavorite(g, m, favs) ==
    /\ Prop(g, m, "tmdbId") # <<>>
    /\ Prop(g, m, "tmdbId")[1] \in favs

\* RETURN m { .*, favorite: ... } AS movie
MovieRow(g, m, favs) == [id |-> m, favorite |-> IsFavorite(g, m, favs)]

\* MATCH (m:Movie) WHERE m.`sort` IS NOT NULL
FindAllMatch(g, sort) ==
    { m \in Nodes : HasLabel(m, "Movie") /\ Prop(g, m, sort) # <<>> }

\* MATCH (m:Movie)-[:IN_GENRE]->(:Genre {name: $name})
FindAllByGenreMatch(g, genre, sort) ==
    { m \in FindAllMatch(g, sort) :
        \E e \in g.edges : e = <<"IN_GENRE", m, genre>> /\ HasLabel(genre, "Genre") }

\* MATCH (:Person {tmdbId: $id})-[:ACTED_IN]->(m:Movie)
FindAllByActorIdMatch(g, id, sort) ==
    { m \in FindAllMatch(g, sort) :
        \E p \in Lookup(g, "Person", id) : <<"ACTED_IN", p, m>> \in g.edges }

\* MATCH (:Person {tmdbId: $id})-[:DIRECTED]->(m:Movie)
FindAllByDirectorIdMatch(g, id, sort) ==
    { m \in FindAllMatch(g, sort) :
        \E p \in Lookup(g, "Person", id) : <<"DIRECTED", p, m>> \in g.edges }

\* MATCH (m:Movie {tmdbId: $id}) RETURN m { .*, actors, directors, genres,
\* ratingCount, favorite } AS movie LIMIT 1
MovieDetail(g, m, favs) ==
    [id |-> m,
     actors |-> { e[2] : e \in { e \in g.edges : e[1] = "ACTED_IN" /\ e[3] = m } },
     directors |-> { e[2] : e \in { e \in g.edges : e[1] = "DIRECTED" /\ e[3] = m } },
     genres |-> { e[3] : e \in { e \in g.edges : e[1] = "IN_GENRE" /\ e[2] = m } },
     ratingCount |-> Cardinality({ e \in g.edges : e[1] = "RATED" /\ e[3] = m }),
     favorite |-> IsFavorite(g, m, favs)]

\* (:Movie {tmdbId: $id})-[:IN_GENRE|ACTED_IN|DIRECTED]->()
\*     <-[:IN_GENRE|ACTED_IN|DIRECTED]-(m) WHERE m.imdbRating IS NOT NULL
\* the matched paths <<first relationship, second relationship>>
SimilarityTypes == {"IN_GENRE", "ACTED_IN", "DIRECTED"}
SimilarMoviePaths(g, id) ==
    { pth \in g.edges \X g.edges :
        /\ pth[1][1] \in SimilarityTypes
        /\ pth[1][2] \in Lookup(g, "Movie", id)
        /\ pth[2][1] \in SimilarityTypes
        /\ pth[2][3] = pth[1][3]
        /\ pth[2] # pth[1]
        /\ Prop(g, pth[2][2], "imdbRating") # <<>> }

\* WITH m, count(*) AS inCommon
MovieInCommon(g, id, m) ==
    Cardinality({ pth \in SimilarMoviePaths(g, id) : pth[2][2] = m })

\* WITH m, inCommon, m.imdbRating * inCommon AS score
MovieScore(g, id, m) == Prop(g, m, "imdbRating")[1] * MovieInCommon(g, id, m)

SimilarMovies(g, id) == { pth[2][2] : pth \in SimilarMoviePaths(g, id) }

\* RETURN m { .*, score: score, favorite: ... } AS movie
SimilarMovieRow(g, id, m, favs) ==
    [id |-> m, score |-> MovieScore(g, id, m), favorite |-> IsFavorite(g, m, favs)]

\* -------------------------------------------------------- people queries
\* MATCH (p:Person) WHERE $q IS NULL OR toLower(p.name) CONTAINS toLower($q)
PeopleFindAllMatch(g, q) ==
    { p \in Nodes :
        /\ HasLabel(p, "Person")
        /\ \/ q = <<>>
           \/ Contains(ToLower(NameOf(p)), ToLower(q[1])) }

PersonRow(g, p) == [id |-> p]

ActedCount(g, p) == Cardinality({ e \in g.edges : e[1] = "ACTED_IN" /\ e[2] = p })
DirectedCount(g, p) == Cardinality({ e \in g.edges : e[1] = "DIRECTED" /\ e[2] = p })

\* RETURN p { .*, actedCount, directedCount } AS person
PersonDetail(g, p) ==
    [id |-> p, actedCount |-> ActedCount(g, p), directedCount |-> DirectedCount(g, p)]

\* (:Person {tmdbId: $id})-[:ACTED_IN|DIRECTED]->(m)<-[r:ACTED_IN|DIRECTED]-(p)
CreditTypes == {"ACTED_IN", "DIRECTED"}
SimilarPeoplePaths(g, id) ==
    { pth \in g.edges \X g.edges :
        /\ pth[1][1] \in CreditTypes
        /\ pth[1][2] \in Lookup(g, "Person", id)
        /\ pth[2][1] \in CreditTypes
        /\ pth[2][3] = pth[1][3]
        /\ pth[2] # pth[1] }

SimilarPeople(g, id) == { pth[2][2] : pth \in SimilarPeoplePaths(g, id) }

\* size(person.inCommon): one collected item for each matched path
InCommonSize(g, id, p) ==
    Cardinality({ pth \in SimilarPeoplePaths(g, id) : pth[2][2] = p })

\* RETURN p { .*, actedCount, directedCount,
\*            inCommon: collect(m {.tmdbId, .title, type: type(r)}) } AS person
SimilarPersonRow(g, id, p) ==
    [id |-> p, actedCount |-> ActedCount(g, p),
     directedCount |-> DirectedCount(g, p),
     inCommon |-> { <<pth[2][3], pth[2][1]>> :
                      pth \in { x \in SimilarPeoplePaths(g, id) : x[2][2] = p } },
     inCommonSize |-> InCommonSize(g, id, p)]

\* ------------------------------------------------------------ operations
MovieListOps ==
    {"FindAll", "FindAllByGenre", "FindAllByActorId", "FindAllByDirectorId"}
MovieOps == MovieListOps \cup {"FindOneById", "FindAllBySimilarity"}
PeopleOps == {"PeopleFindAll", "PeopleFindOneById", "PeopleFindAllBySimilarity"}
FindOneOps == {"FindOneById", "PeopleFindOneById"}
\* operations that interpolate page.Sort() and page.Order() into the query
SortedOps == MovieListOps \cup {"PeopleFindAll"}
PagedOps == SortedOps \cup {"FindAllBySimilarity", "PeopleFindAllBySimilarity"}
Ops == MovieOps \cup PeopleOps

EntityOf(op) == IF op \in MovieOps THEN "movie" ELSE "person"

IdArgs(op) ==
    CASE op \in {"FindAll", "PeopleFindAll"} -> {""}
      [] op = "FindAllByGenre" -> Genres
      [] op \in {"FindAllByActorId", "FindAllByDirectorId"} -> People
      [] op \in {"FindOneById", "FindAllBySimilarity"} -> Movies \cup {UnknownId}
      [] OTHER -> People \cup {UnknownId}

UserArgs(op) == IF op \in MovieOps THEN {""} \cup Users ELSE {""}

\* the rows an operation's main query matches
MatchOf(g, c, p) ==
    CASE c.op = "FindAll" -> FindAllMatch(g, p.sort)
      [] c.op = "FindAllByGenre" -> FindAllByGenreMatch(g, c.id, p.sort)
      [] c.op = "FindAllByActorId" -> FindAllByActorIdMatch(g, c.id, p.sort)
      [] c.op = "FindAllByDirectorId" -> FindAllByDirectorIdMatch(g, c.id, p.sort)
      [] c.op = "FindOneById" -> Lookup(g, "Movie", c.id)
      [] c.op = "FindAllBySimilarity" -> SimilarMovies(g, c.id)
      [] c.op = "PeopleFindAll" -> PeopleFindAllMatch(g, p.query)
      [] c.op = "PeopleFindOneById" -> Lookup(g, "Person", c.id)
      [] OTHER -> SimilarPeople(g, c.id)

\* the ORDER BY key of a matched row: <<>> where the query has no ORDER BY
OrderKey(g, c, p, n) ==
    CASE c.op \in SortedOps -> Prop(g, n, p.sort)
      [] c.op = "FindAllBySimilarity" -> <<MovieScore(g, c.id, n)>>
      [] c.op = "PeopleFindAllBySimilarity" -> <<InCommonSize(g, c.id, n)>>
      [] OTHER -> <<>>

OrderDir(c, p) ==
    CASE c.op \in SortedOps -> p.order
      [] c.op \in FindOneOps -> "ASC"
      [] OTHER -> "DESC"

\* the row returned for a matched node
RowOf(g, c, favs, n) ==
    CASE c.op \in MovieListOps -> MovieRow(g, n, favs)
      [] c.op = "FindOneById" -> MovieDetail(g, n, favs)
      [] c.op = "FindAllBySimilarity" -> SimilarMovieRow(g, c.id, n, favs)
      [] c.op = "PeopleFindAll" -> PersonRow(g, n)
      [] c.op = "PeopleFindOneById" -> PersonDetail(g, n)
      [] OTHER -> SimilarPersonRow(g, c.id, n)

\* the store-side SKIP/LIMIT of each query text
StoreWindow(c, p, rows) ==
    CASE c.op = "FindOneById" -> Window(rows, 0, 1)
      [] c.op = "PeopleFindOneById" -> rows
      [] OTHER -> Window(rows, p.skip, p.limit)

\* the query as sent: the operation and the fragments interpolated into it
QueryText(c, p) ==
    [op |-> c.op,
     sort |-> IF c.op \in SortedOps THEN <<p.sort>> ELSE <<>>,
     order |-> IF c.op \in SortedOps THEN <<p.order>> ELSE <<>>]

\* variant of Single that reports no record as a nil record without an error
SingleOrNil(recs) ==
    IF Len(recs) = 0 THEN [rec |-> <<>>, err |-> {}]
    ELSE [rec |-> SubSeq(recs, 1, 1), err |-> {}]

\* result.Single(): the one record, or an error when there is none or several
Single(recs) ==
    IF Len(recs) = 1 THEN [rec |-> recs, err |-> {}]
    ELSE IF Len(recs) = 0 THEN [rec |-> <<>>, err |-> {"NoRecords"}]
    ELSE [rec |-> <<>>, err |-> {"TooManyRecords"}]

\* what the return statement after ReadTransaction yields
ReturnValue(c, p, res, err) ==
    IF err # {} THEN <<>>
    ELSE IF c.op \in MovieListOps THEN Slice(res, p.skip, p.limit)
    ELSE res

\* ---------------------------------------------------------------- state
VARIABLES
    graph,        \* the store's data
    request,      \* the raw paging input of the current request, or <<>>
    page,         \* the validated paging, or <<>>
    parseErr,     \* the error of the paging validation
    call,         \* the operation in progress and its arguments
    pc,           \* where the call is
    session,      \* "none", "open" or "closed"
    nSessions,    \* sessions opened by the call
    nTx,          \* read transactions begun by the call
    nFavQueries,  \* favourites queries sent by the call
    favorites,    \* what getUserFavorites returned
    faults,       \* the store interactions that failed during the call
    queries,      \* the main queries sent by the call
    records,      \* the rows the store delivers
    txResult,     \* what the transaction function returned
    txErr,        \* the error the transaction function returned
    ret,          \* what the call returned
    prev          \* the preceding call's paging and return value, or <<>>

vars == <<graph, request, page, parseErr, call, pc, session, nSessions, nTx,
          nFavQueries, favorites, faults, queries, records,
          txResult, txErr, ret, prev>>

NoCall == [op |-> "none", id |-> "", userId |-> ""]
NoRet == [result |-> <<>>, err |-> {}]

Init ==
    /\ graph \in Graphs
    /\ request = <<>>
    /\ page = <<>>
    /\ parseErr = {}
    /\ call = NoCall
    /\ pc = "idle"
    /\ session = "none"
    /\ nSessions = 0
    /\ nTx = 0
    /\ nFavQueries = 0
    /\ favorites = {}
    /\ faults = {}
    /\ queries = <<>>
    /\ records = <<>>
    /\ txResult = <<>>
    /\ txErr = {}
    /\ ret = NoRet
    /\ prev = <<>>

ResetLocals ==
    /\ nFavQueries' = 0
    /\ favorites' = {}
    /\ faults' = {}
    /\ queries' = <<>>
    /\ records' = <<>>
    /\ txResult' = <<>>
    /\ txErr' = {}
    /\ ret' = NoRet

\* a request's paging input is validated before any service is called
NewPaging ==
    /\ pc = "idle"
    /\ request = <<>>
    /\ \E raw \in RawPagings("movie") \cup RawPagings("person") :
          /\ request' = <<raw>>
          /\ page' = ParsePaging(raw)
          /\ parseErr' = IF ParsePaging(raw) = <<>> THEN {"InvalidParameter"} ELSE {}
    /\ call' = NoCall
    /\ pc' = "idle"
    /\ session' = "none"
    /\ nSessions' = 0
    /\ nTx' = 0
    /\ prev' = <<>>
    /\ ResetLocals
    /\ UNCHANGED graph

\* session := NewSession; defer DeferredClose; session.ReadTransaction(...)
Begin ==
    /\ pc = "idle"
    /\ \E op \in Ops : \E id \in IdArgs(op) : \E userId \in UserArgs(op) :
          /\ IF op \in PagedOps
             THEN /\ page # <<>>
                  /\ page[1].entity = EntityOf(op)
             ELSE request = <<>>
          /\ call' = [op |-> op, id |-> id, userId |-> userId]
    /\ pc' = "inTx"
    /\ session' = "open"
    /\ nSessions' = 1
    /\ nTx' = 1
    /\ prev' = <<>>
    /\ ResetLocals
    /\ UNCHANGED <<graph, request, page, parseErr>>

\* getUserFavorites(tx, userId)
GetUserFavorites ==
    /\ pc = "inTx"
    /\ call.op \in MovieOps
    /\ \/ /\ call.userId = ""
          /\ favorites' = {}
          /\ pc' = "favDone"
          /\ UNCHANGED <<nFavQueries, faults, txErr>>
       \/ /\ call.userId # ""
          /\ nFavQueries' = nFavQueries + 1
          /\ \/ \* tx.Run fails
                /\ favorites' = {}
                /\ faults' = {"favRun"}
                /\ txErr' = {"QueryFailure"}
                /\ pc' = "txDone"
             \/ \* the rows read before result.Next() returns false
                \E consumed \in SUBSET FavoriteNodes(graph, call.userId) :
                   /\ favorites' = FavoriteIds(graph, consumed)
                   /\ IF \E n \in consumed : Prop(graph, n, "tmdbId") = <<>>
                      THEN \* id.(string) on a nil id
                           /\ pc' = "panicking"
                           /\ faults' = {}
                      ELSE /\ pc' = "favDone"
                           /\ faults' =
                                IF consumed = FavoriteNodes(graph, call.userId)
                                THEN {} ELSE {"favStream"}
                   /\ UNCHANGED txErr
    /\ UNCHANGED <<graph, request, page, parseErr, call, session, nSessions, nTx,
                   queries, records, txResult, ret, prev>>

PageOf == IF page = <<>> THEN [skip |-> 0, limit |-> 1, sort |-> "", order |-> "ASC",
                               query |-> <<>>, entity |-> ""]
          ELSE page[1]

\* tx.Run of the operation's main query
RunQuery ==
    /\ \/ pc = "favDone" /\ call.op \in MovieOps
       \/ pc = "inTx" /\ call.op \in PeopleOps
    /\ queries' = Append(queries, QueryText(call, PageOf))
    /\ \/ /\ txErr' = {"QueryFailure"}
          /\ faults' = faults \cup {"run"}
          /\ pc' = "txDone"
          /\ UNCHANGED records
       \/ \E ord \in Orderings(MatchOf(graph, call, PageOf),
                               [n \in MatchOf(graph, call, PageOf) |->
                                  OrderKey(graph, call, PageOf, n)],
                               OrderDir(call, PageOf)) :
             /\ records' = [i \in 1..Len(StoreWindow(call, PageOf, ord)) |->
                              RowOf(graph, call, favorites,
                                    StoreWindow(call, PageOf, ord)[i])]
             /\ pc' = "ran"
             /\ UNCHANGED <<txErr, faults>>
    /\ UNCHANGED <<graph, request, page, parseErr, call, session, nSessions, nTx,
                   nFavQueries, favorites, txResult, ret, prev>>

\* result.Collect() or result.Single(), and the loop building the results
Collect ==
    /\ pc = "ran"
    /\ \/ /\ txErr' = {"QueryFailure"}
          /\ txResult' = <<>>
          /\ faults' = faults \cup {"collect"}
       \/ /\ call.op \in FindOneOps
          /\ txErr' = Single(records).err
          /\ txResult' = Single(records).rec
          /\ UNCHANGED faults
       \/ /\ call.op \notin FindOneOps
          /\ txErr' = {}
          /\ txResult' = records
          /\ UNCHANGED faults
    /\ pc' = "txDone"
    /\ records' = <<>>
    /\ UNCHANGED <<graph, request, page, parseErr, call, session, nSessions, nTx,
                   nFavQueries, favorites, queries, ret, prev>>

\* the return statement, then the deferred session close
Return ==
    /\ pc = "txDone"
    /\ \E closeErr \in { {}, {"CloseFailure"} } :
          /\ ret' = [result |-> ReturnValue(call, PageOf, txResult, txErr),
                     err |-> DeferredClose(closeErr, txErr)]
          /\ faults' = IF closeErr = {} THEN faults ELSE faults \cup {"close"}
    /\ session' = "closed"
    /\ pc' = "returned"
    /\ txResult' = <<>>
    /\ UNCHANGED <<graph, request, page, parseErr, call, nSessions, nTx,
                   nFavQueries, favorites, queries, records, txErr, prev>>

\* variant of PanicUnwind for a close that is not deferred
PanicUnwindNoClose ==
    /\ pc = "panicking"
    /\ pc' = "panicked"
    /\ UNCHANGED <<graph, request, page, parseErr, call, session, nSessions, nTx,
                   nFavQueries, favorites, faults, queries, records,
                   txResult, txErr, ret, prev>>

\* a panic inside the transaction function unwinds through the deferred close
PanicUnwind ==
    /\ pc = "panicking"
    /\ session' = "closed"
    /\ pc' = "panicked"
    /\ UNCHANGED <<graph, request, page, parseErr, call, nSessions, nTx,
                   nFavQueries, favorites, faults, queries, records,
                   txResult, txErr, ret, prev>>

\* the caller repeats the call on unchanged data: identically (d = 0) or for
\* the next page (d = limit)
NextCall ==
    /\ pc = "returned"
    /\ ret.err = {}
    /\ faults = {}
    /\ prev = <<>>
    /\ IF call.op \in PagedOps
       THEN \E d \in {0, page[1].limit} :
               /\ page[1].skip + d <= MaxSkip
               /\ request' = << [request[1] EXCEPT !.skip = @ + d] >>
               /\ page' = ParsePaging([request[1] EXCEPT !.skip = @ + d])
       ELSE UNCHANGED <<request, page>>
    /\ prev' = << [page |-> page, ret |-> ret] >>
    /\ pc' = "inTx"
    /\ session' = "open"
    /\ nSessions' = 1
    /\ nTx' = 1
    /\ ResetLocals
    /\ UNCHANGED <<graph, parseErr, call>>

Next ==
    \/ NewPaging
    \/ Begin
    \/ GetUserFavorites
    \/ RunQuery
    \/ Collect
    \/ Return
    \/ PanicUnwind
    \/ NextCall

Spec == Init /\ [][Next]_vars

\* ---------------------------------------------------------------- claims
Ids(rows) == [i \in 1..Len(rows) |-> rows[i].id]
Range(f) == { f[i] : i \in DOMAIN f }

\* the call that has returned is the next page after the preceding call
IsNextPage ==
    /\ prev # <<>>
    /\ page # <<>>
    /\ page[1].skip = prev[1].page[1].skip + page[1].limit

\* the call that has returned repeats the preceding call identically
IsRepeat ==
    /\ prev # <<>>
    /\ prev[1].page = page

\* C1: a movie list operation returns at most limit rows, and the call for
\* skip + limit returns the next page: the rows at that window of the ordered
\* filtered sequence, disjoint from the rows of the call for skip.
C1_NextPage ==
    (pc = "returned" /\ call.op \in MovieListOps /\ ret.err = {} /\ IsNextPage /\ faults = {}) =>
        /\ Len(ret.result) <= page[1].limit
        /\ \E ord \in Orderings(MatchOf(graph, call, page[1]),
                                [n \in MatchOf(graph, call, page[1]) |->
                                   OrderKey(graph, call, page[1], n)],
                                OrderDir(call, page[1])) :
              Ids(ret.result) = Window(ord, page[1].skip, page[1].limit)
        /\ Range(Ids(ret.result)) \cap Range(Ids(prev[1].ret.result)) = {}

\* C2: every movie a movie operation returns has favorite true exactly when
\* its tmdbId is in the favourites resolved for the call; with an empty userId
\* favorite is false on every returned movie and no favourites query is sent.
C2_FavoriteFlag ==
    call.op \in MovieOps =>
        /\ pc = "returned" =>
              \A i \in 1..Len(ret.result) :
                 ret.result[i].favorite <=> (ret.result[i].id \in favorites)
        /\ call.userId = "" =>
              /\ nFavQueries = 0
              /\ \A i \in 1..Len(ret.result) : ~ret.result[i].favorite

\* a call for a user with favourites returned a favourite and a non-favourite
C2_Witness ==
    /\ pc = "returned"
    /\ call.op \in MovieListOps
    /\ call.userId = "u1"
    /\ ret.err = {}
    /\ faults = {}
    /\ \E i, j \in 1..Len(ret.result) :
          ret.result[i].favorite /\ ~ret.result[j].favorite

\* the movies the similarity ranking is documented to consider: those with a
\* rating that share a genre, an actor or a director with the source
SharedConnections(g, src, m) ==
    Cardinality({ x \in Genres :
                    <<"IN_GENRE", src, x>> \in g.edges /\ <<"IN_GENRE", m, x>> \in g.edges })
    + Cardinality({ x \in People :
                    <<"ACTED_IN", x, src>> \in g.edges /\ <<"ACTED_IN", x, m>> \in g.edges })
    + Cardinality({ x \in People :
                    <<"DIRECTED", x, src>> \in g.edges /\ <<"DIRECTED", x, m>> \in g.edges })

ReferenceCandidates(g, id) ==
    { m \in Movies :
        /\ m # id
        /\ id \in Movies
        /\ g.rating[m] # <<>>
        /\ SharedConnections(g, id, m) >= 1 }

ReferenceScore(g, id, m) == g.rating[m][1] * SharedConnections(g, id, m)

\* C3: movie FindAllBySimilarity returns exactly the skip/limit window of the
\* ranking of all rated movies sharing a genre, actor or director with the
\* source, scored rating * inCommon, ordered by score descending.
C3_SimilarityWindow ==
    (pc = "returned" /\ call.op = "FindAllBySimilarity" /\ ret.err = {} /\ faults = {}) =>
        \E ord \in Orderings(ReferenceCandidates(graph, call.id),
                             [m \in ReferenceCandidates(graph, call.id) |->
                                <<ReferenceScore(graph, call.id, m)>>],
                             "DESC") :
           /\ Ids(ret.result) = Window(ord, page[1].skip, page[1].limit)
           /\ \A i \in 1..Len(ret.result) :
                 ret.result[i].score = ReferenceScore(graph, call.id, ret.result[i].id)

\* C4: people FindAllBySimilarity orders by descending inCommon size, and a
\* repeated identical call on unchanged data returns the same sequence.
C4_Deterministic ==
    (pc = "returned" /\ call.op = "PeopleFindAllBySimilarity" /\ ret.err = {} /\ faults = {}) =>
        /\ \A i \in 1..(Len(ret.result) - 1) :
              ret.result[i].inCommonSize >= ret.result[i + 1].inCommonSize
        /\ IsRepeat => ret.result = prev[1].ret.result

StoreFaults == {"favRun", "run", "collect"}

\* C5: FindOneById on an identifier matching no row returns the no-record
\* error and no entity, told apart from a query failure; on an identifier
\* matching one row it returns that entity with a nil error.
C5_FindOneById ==
    (pc = "returned" /\ call.op \in FindOneOps) =>
        /\ (faults \cap StoreFaults = {} /\ MatchOf(graph, call, PageOf) = {}) =>
              /\ ret.result = <<>>
              /\ "NoRecords" \in ret.err
              /\ "QueryFailure" \notin ret.err
        /\ faults \cap StoreFaults # {} =>
              /\ ret.result = <<>>
              /\ "QueryFailure" \in ret.err
              /\ "NoRecords" \notin ret.err
        /\ (faults = {} /\ Cardinality(MatchOf(graph, call, PageOf)) = 1) =>
              /\ ret.err = {}
              /\ \E n \in MatchOf(graph, call, PageOf) :
                    ret.result = << RowOf(graph, call, favorites, n) >>

\* FindOneById returned for an identifier that matches nothing
C5_Witness ==
    /\ pc = "returned"
    /\ call.op \in FindOneOps
    /\ call.id = UnknownId
    /\ faults = {}
    /\ ret.err = {"NoRecords"}

C7_SessionClosed ==
    /\ pc \in {"returned", "panicked"} =>
          session = "closed" /\ nSessions = 1 /\ nTx = 1
    /\ pc \in {"inTx", "favDone", "ran", "txDone", "panicking"} =>
          session = "open" /\ nSessions = 1 /\ nTx = 1
    /\ pc = "idle" => session = "none" /\ nSessions = 0 /\ nTx = 0

\* a call left by a panic inside the transaction function, its session closed
C7_Witness == pc = "panicked" /\ session = "closed"

\* C8: no call returns both a result and an error.
C8_ResultXorError ==
    (pc = "returned" /\ ret.err # {}) => ret.result = <<>>

\* C9: getUserFavorites with a non-empty userId fails whenever the store
\* fails, at the run or while streaming, and never returns a nil error with
\* a list that misses identifiers the user favourited.
C9_FavoritesComplete ==
    (pc = "favDone" /\ call.userId # "") =>
        /\ faults \cap {"favRun", "favStream"} = {}
        /\ favorites = FavoriteIds(graph, FavoriteNodes(graph, call.userId))

\* C10: people FindAllBySimilarity never returns the source person.
C10_NoSelf ==
    (pc = "returned" /\ call.op = "PeopleFindAllBySimilarity" /\ faults = {}) =>
        \A i \in 1..Len(ret.result) : ret.result[i].id # call.id

=============================================================================
